---- MODULE Spec2Model ----
(***************************************************************************)
(* Granite Speech: the feature extractor (log-mel framing, frame stacking, *)
(* projector frame count) and the processor (text/audio validation,        *)
(* placeholder expansion, tokenizer hand-off).                             *)
(*                                                                         *)
(* Python values are records tagged with their type:                       *)
(*   None     [t |-> "NoneType"]                                           *)
(*   int      [t |-> "int",  i |-> 424]                                    *)
(*   str      [t |-> "str",  s |-> <<"a", "b">>]   (sequence of characters)*)
(*   list     [t |-> "list", l |-> <<v1, v2>>]                             *)
(*   Tensor   [t |-> "Tensor", shape |-> <<2, 5>>, data |-> rows,          *)
(*             device |-> [t |-> "device", type |-> "cpu"]]                *)
(* A tensor's data is a sequence of rows, each row a sequence of runs      *)
(* [src |-> "c1", n |-> 3]: n consecutive samples of clip c1, or of the    *)
(* constant zero when src = "0".  A one-dimensional tensor has one row.    *)
(* The feature tensor computed from audio carries its shape only.          *)
(*                                                                         *)
(* A call returns [exc |-> "none", val |-> v] or raises [exc |-> "Name"].  *)
(*                                                                         *)
(* A MelSpectrogram transform is an object: self.melspec and a thread's    *)
(* local melspec hold a reference [t |-> "MelSpectrogram", id |-> k] to    *)
(* the k-th transform constructed, and transforms[k] is the device that    *)
(* transform is on (Module.to moves a module in place).                    *)
(* The devices are taken to exist: moving to one does not fail.            *)
(***************************************************************************)
EXTENDS Integers, Sequences, FiniteSets, TLC

VARIABLES
    melspec_kwargs,             \* feature extractor: n_fft, win_length, hop_length, n_mels
    projector_window_size,      \* feature extractor field
    projector_downsample_rate,  \* feature extractor field
    melspec,                    \* feature extractor: the lazily built transform, or None
    transforms,                 \* the MelSpectrogram objects constructed: the device of each
    threads,                    \* the threads calling the feature extractor concurrently
    audio_token,                \* processor field
    op,                         \* the operation called last ("new" after construction)
    text,                       \* its text / prompt-list argument
    audios,                     \* its audio argument (audios, x, logmel or audio_lengths)
    feats,                      \* its num_audio_features argument
    ret,                        \* what it returned or raised
    fe_calls,                   \* feature extractor invocations made by the last call
    tok_calls,                  \* tokenizer invocations made by the last call
    tok_input,                  \* the text the tokenizer was handed by the last call
    kwargs                      \* the arguments of the last GraniteMoeHybridConfig(...)

vars == <<melspec_kwargs, projector_window_size, projector_downsample_rate, melspec,
          transforms, threads, audio_token, op, text, audios, feats, ret, fe_calls,
          tok_calls, tok_input, kwargs>>

----------------------------------------------------------------------------
(* Python values *)

None == [t |-> "NoneType"]
PyInt(n) == [t |-> "int", i |-> n]
PyStr(chars) == [t |-> "str", s |-> chars]
PyList(items) == [t |-> "list", l |-> items]
PyIntList(ns) == PyList([k \in 1..Len(ns) |-> PyInt(ns[k])])
\* devices: the host and an accelerator
Device(type) == [t |-> "device", type |-> type]
Cpu == Device("cpu")
Cuda == Device("cuda")

\* a tensor in host memory, as torch.rand and the padding and concatenation of host
\* tensors make them
Tensor(shape, data) == [t |-> "Tensor", shape |-> shape, data |-> data, device |-> Cpu]

IsStr(v) == v.t = "str"
IsList(v) == v.t = "list"
IsTensor(v) == v.t = "Tensor"

Ok(v) == [exc |-> "none", val |-> v]
Raise(e) == [exc |-> e]
Raised(r) == r.exc # "none"

RECURSIVE SumSeq(_)
SumSeq(s) == IF s = <<>> THEN 0 ELSE Head(s) + SumSeq(Tail(s))

RECURSIVE MaxSeq(_)
MaxSeq(s) == IF Len(s) = 1 THEN s[1]
             ELSE LET m == MaxSeq(Tail(s)) IN IF s[1] >= m THEN s[1] ELSE m

RECURSIVE Flatten(_)
Flatten(ss) == IF ss = <<>> THEN <<>> ELSE Head(ss) \o Flatten(Tail(ss))

----------------------------------------------------------------------------
(* Python str operations on sequences of characters *)

\* s.find(sub) + 1: the position of the first occurrence of sub in s, 0 if none
Find(s, sub) ==
    LET hits == {i \in 1..(Len(s) - Len(sub) + 1) : SubSeq(s, i, i + Len(sub) - 1) = sub}
    IN  IF hits = {} THEN 0 ELSE CHOOSE i \in hits : \A j \in hits : i <= j

\* sub in s
Contains(s, sub) == Find(s, sub) # 0

\* s.replace(old, new, 1)
ReplaceFirst(s, old, new) ==
    LET i == Find(s, old)
    IN  IF i = 0 THEN s
        ELSE SubSeq(s, 1, i - 1) \o new \o SubSeq(s, i + Len(old), Len(s))

\* s.replace(old, new): every non-overlapping occurrence, left to right
RECURSIVE ReplaceAll(_, _, _)
ReplaceAll(s, old, new) ==
    LET i == Find(s, old)
    IN  IF i = 0 THEN s
        ELSE SubSeq(s, 1, i - 1) \o new
             \o ReplaceAll(SubSeq(s, i + Len(old), Len(s)), old, new)

\* s.count(sub): the number of non-overlapping occurrences, left to right
RECURSIVE Count(_, _)
Count(s, sub) ==
    LET i == Find(s, sub)
    IN  IF i = 0 THEN 0 ELSE 1 + Count(SubSeq(s, i + Len(sub), Len(s)), sub)

\* s * n
RECURSIVE Repeat(_, _)
Repeat(s, n) == IF n <= 0 THEN <<>> ELSE s \o Repeat(s, n - 1)

----------------------------------------------------------------------------
(* Tensors *)

Ndim(x) == Len(x.shape)
LastDim(x) == x.shape[Len(x.shape)]

\* a clip of n samples named c: one-dimensional, or one row of a (1, n) batch
Clip1D(c, n) == Tensor(<<n>>, << <<[src |-> c, n |-> n]>> >>)
Clip2D(c, n) == Tensor(<<1, n>>, << <<[src |-> c, n |-> n]>> >>)

\* torch.nn.functional.pad(audio, (0, pad)): pad zeros on the right of the last dimension
PadRight(audio, pad) ==
    Tensor([audio.shape EXCEPT ![Len(audio.shape)] = @ + pad],
           [r \in 1..Len(audio.data) |->
               IF pad = 0 THEN audio.data[r]
               ELSE Append(audio.data[r], [src |-> "0", n |-> pad])])

\* torch.cat(padded, dim=0) on tensors of one rank whose other dimensions agree:
\* rows are stacked; one-dimensional tensors are joined end to end
CatDim0(ts) ==
    LET dim0 == SumSeq([k \in 1..Len(ts) |-> ts[k].shape[1]])
        rows == Flatten([k \in 1..Len(ts) |-> ts[k].data])
    IN  IF Ndim(ts[1]) = 1
        THEN Tensor(<<dim0>>, <<Flatten(rows)>>)
        ELSE Tensor([ts[1].shape EXCEPT ![1] = dim0], rows)

\* x.to(device), x.cpu()
To(x, device) == [x EXCEPT !.device = device]

----------------------------------------------------------------------------
(* GraniteSpeechFeatureExtractor *)

\* melspec(x.float()): the number of time steps torchaudio's MelSpectrogram yields for
\* n samples (centred frames, reflect padding of n_fft // 2 on both sides)
MelFrames(n) ==
    1 + (n + 2 * (melspec_kwargs.n_fft \div 2) - melspec_kwargs.n_fft)
            \div melspec_kwargs.hop_length

\* torchaudio.transforms.MelSpectrogram(**self.melspec_kwargs): a reference to the
\* transform constructed next
MelSpectrogram == [t |-> "MelSpectrogram", id |-> Len(transforms) + 1]

\* the body of the if guarded by a second look at the field
AssignNewMelspecIfNone(m) == IF m = None THEN MelSpectrogram ELSE m

\* the body of the if in _ensure_melspec_transform_is_initialized: the value of
\* self.melspec after the assignment, whatever it held before
AssignNewMelspec(m) == MelSpectrogram

\* _ensure_melspec_transform_is_initialized without the test of self.melspec
_ensure_melspec_transform_is_rebuilt(m) == AssignNewMelspec(m)

\* _ensure_melspec_transform_is_initialized: the value of self.melspec after it
_ensure_melspec_transform_is_initialized(m) ==
    IF m = None THEN AssignNewMelspec(m) ELSE m

\* the transforms in existence once the reference m is held: one that is not among ts
\* has just been constructed, in host memory
Constructed(ts, m) == IF m.id > Len(ts) THEN Append(ts, Cpu) ELSE ts

\* self.melspec.to(device) when device is not None: the transform m refers to is moved
MelspecTo(ts, m, device) == IF device # None THEN [ts EXCEPT ![m.id] = device] ELSE ts

\* x.to(device) when device is not None
InputTo(x, device) == IF device # None THEN To(x, device) ELSE x

\* the end of __call__ without the transfer to the host
OnComputeDevice(x) == x

\* the end of __call__: x.device is a torch.device, which is never equal to the str
\* "cpu", so every result goes through x.detach().cpu()
OnHost(x) == To(x, Cpu)

\* __call__ from B, _ = x.shape on, with x and the transform where lines 74-78 left them
\* (the transform on melspec_device): the stacked log-mel features
LogMel(x, melspec_device) ==
    IF Ndim(x) # 2 THEN Raise("ValueError")                       \* B, _ = x.shape
    ELSE IF melspec_device # x.device
    THEN Raise("RuntimeError")                                    \* window and input apart
    ELSE IF LastDim(x) <= melspec_kwargs.n_fft \div 2
    THEN Raise("RuntimeError")                                    \* reflect padding
    ELSE
    LET B      == x.shape[1]
        steps  == MelFrames(x.shape[2])
        even   == IF steps % 2 = 1 THEN steps - 1 ELSE steps      \* remove last frame if odd
        width  == 2 * melspec_kwargs.n_mels
        numel  == B * even * melspec_kwargs.n_mels
    IN  IF numel = 0 THEN Raise("RuntimeError")                   \* reshape(B, -1, ...) of nothing
        ELSE Ok(OnHost(To(Tensor(<<B, numel \div (B * width), width>>, <<>>), x.device)))

\* self.melspec and the transforms after a whole __call__(x, device)
MelspecAfterCall(device) ==
    LET m == _ensure_melspec_transform_is_initialized(melspec)
    IN  [melspec |-> m, transforms |-> MelspecTo(Constructed(transforms, m), m, device)]

\* __call__(x, device), made by one thread start to end: what it returns or raises
GraniteSpeechFeatureExtractor__call__(x, device) ==
    LET after == MelspecAfterCall(device)
    IN  LogMel(InputTo(x, device), after.transforms[after.melspec.id])

\* _get_num_audio_features with the block count rounded down
_get_num_audio_features_floor(logmel) ==
    IF ~IsTensor(logmel) THEN Raise("AttributeError")
    ELSE IF Ndim(logmel) < 2 THEN Raise("IndexError")
    ELSE Ok(PyInt(((logmel.shape[2] \div projector_window_size) * projector_window_size)
                  \div projector_downsample_rate))

\* _get_num_audio_features(logmel)
_get_num_audio_features(logmel) ==
    IF ~IsTensor(logmel) THEN Raise("AttributeError")             \* logmel.shape
    ELSE IF Ndim(logmel) < 2 THEN Raise("IndexError")             \* logmel.shape[1]
    ELSE
    LET seq_len == logmel.shape[2]
        nblocks == (seq_len + projector_window_size - 1) \div projector_window_size
    IN  Ok(PyInt((nblocks * projector_window_size) \div projector_downsample_rate))

----------------------------------------------------------------------------
(* GraniteSpeechProcessor: validation and placeholder expansion *)

Marker == <<"<", "p", "l", "a", "c", "e", "h", "o", "l", "d", "e", "r", ">">>
DefaultAudioToken == <<"<", "|", "a", "u", "d", "i", "o", "|", ">">>

\* _get_validated_text that does not look at the first element of a list
_get_validated_text_any_list(txt) ==
    IF IsStr(txt) THEN Ok(<<txt>>)
    ELSE IF IsList(txt) THEN Ok(txt.l)
    ELSE Raise("TypeError")

\* GraniteSpeechProcessor._get_validated_text
_get_validated_text(txt) ==
    IF IsStr(txt) THEN Ok(<<txt>>)
    ELSE IF IsList(txt)
    THEN IF txt.l = <<>> THEN Raise("IndexError")                 \* text[0]
         ELSE IF IsStr(txt.l[1]) THEN Ok(txt.l)
         ELSE Raise("TypeError")
    ELSE Raise("TypeError")

\* sum(t.count(self.audio_token) for t in text)
ExpectedNumAudios(prompts) ==
    IF \E k \in 1..Len(prompts) : ~IsStr(prompts[k])
    THEN Raise("AttributeError")                                  \* t.count
    ELSE Ok(SumSeq([k \in 1..Len(prompts) |-> Count(prompts[k].s, audio_token)]))

\* _get_validated_audios: <<batch, lengths>>
_get_validated_audios(a) ==
    IF IsTensor(a)
    THEN Ok(<<a, [k \in 1..a.shape[1] |-> LastDim(a)]>>)
    ELSE IF IsList(a)
    THEN IF a.l = <<>> THEN Raise("IndexError")                   \* audios[0]
         ELSE IF ~IsTensor(a.l[1]) THEN Raise("TypeError")
         ELSE IF \E k \in 1..Len(a.l) : ~IsTensor(a.l[k])
         THEN Raise("AttributeError")                             \* audio.shape
         ELSE
         LET lengths == [k \in 1..Len(a.l) |-> LastDim(a.l[k])]
             padding == [k \in 1..Len(a.l) |-> MaxSeq(lengths) - lengths[k]]
             padded  == [k \in 1..Len(a.l) |-> PadRight(a.l[k], padding[k])]
         IN  IF \E k \in 1..Len(a.l) : Ndim(a.l[k]) # Ndim(a.l[1])
             THEN Raise("RuntimeError")                           \* torch.cat
             ELSE Ok(<<CatDim0(padded), lengths>>)
    ELSE Raise("TypeError")

\* the while loop of _expand_audio_placeholders on one sample, i audios consumed so far
RECURSIVE ExpandSample(_, _, _)
ExpandSample(sample, i, num_audio_features) ==
    IF ~Contains(sample, audio_token) THEN Ok(<<sample, i>>)
    ELSE IF ~IsList(num_audio_features) THEN Raise("TypeError")   \* num_audio_features[i]
    ELSE IF i >= Len(num_audio_features.l) THEN Raise("IndexError")
    ELSE ExpandSample(
             ReplaceFirst(sample, audio_token,
                          Repeat(Marker, num_audio_features.l[i + 1].i)),
             i + 1, num_audio_features)

\* the for loop of _expand_audio_placeholders from prompt k on
RECURSIVE ExpandFrom(_, _, _, _, _)
ExpandFrom(prompts, k, i, num_audio_features, prompt_strings) ==
    IF k > Len(prompts) THEN Ok(prompt_strings)
    ELSE LET r == ExpandSample(prompts[k].s, i, num_audio_features)
         IN  IF Raised(r) THEN r
             ELSE ExpandFrom(prompts, k + 1, r.val[2], num_audio_features,
                             Append(prompt_strings, r.val[1]))

\* _expand_audio_placeholders
_expand_audio_placeholders(prompts, num_audio_features) ==
    LET r == ExpandFrom(prompts, 1, 0, num_audio_features, <<>>)
    IN  IF Raised(r) THEN r
        ELSE Ok([k \in 1..Len(r.val) |-> PyStr(ReplaceAll(r.val[k], Marker, audio_token))])

----------------------------------------------------------------------------
(* GraniteSpeechProcessor.__call__ *)

\* what one call did: its result, and the collaborators it invoked
Outcome(r, fe, tok, tin) == [ret |-> r, fe_calls |-> fe, tok_calls |-> tok, tok_input |-> tin]

\* text_inputs = self.tokenizer(text, padding=True, **kwargs);
\* return BatchFeature(data={**text_inputs, **speech_inputs})
TokenizeAndReturn(prompts, speech_inputs, fe) ==
    Outcome(Ok([keys |-> {"input_ids", "attention_mask"}
                         \cup (IF speech_inputs = None THEN {} ELSE {"input_features"}),
                input_features |-> speech_inputs]),
            fe, 1, PyList(prompts))

\* the branch "if audios is not None" without the text/audio count check
WithAudioNoCountCheck(prompts, a, expected_num_audios, device) ==
    LET va == _get_validated_audios(a)
    IN  IF Raised(va) THEN Outcome(va, 0, 0, None)
        ELSE
        LET input_features == GraniteSpeechFeatureExtractor__call__(va.val[1], device)
        IN  IF Raised(input_features) THEN Outcome(input_features, 1, 0, None)
            ELSE
            LET num_audio_features == _get_num_audio_features(PyIntList(va.val[2]))
            IN  IF Raised(num_audio_features) THEN Outcome(num_audio_features, 1, 0, None)
                ELSE
                LET expanded == _expand_audio_placeholders(prompts, num_audio_features.val)
                IN  IF Raised(expanded) THEN Outcome(expanded, 1, 0, None)
                    ELSE TokenizeAndReturn(expanded.val, input_features.val, 1)

\* the branch "if audios is not None"
WithAudio(prompts, a, expected_num_audios, device) ==
    LET va == _get_validated_audios(a)
    IN  IF Raised(va) THEN Outcome(va, 0, 0, None)
        ELSE IF Len(va.val[2]) # expected_num_audios
        THEN Outcome(Raise("ValueError"), 0, 0, None)
        ELSE
        LET input_features == GraniteSpeechFeatureExtractor__call__(va.val[1], device)
        IN  IF Raised(input_features) THEN Outcome(input_features, 1, 0, None)
            ELSE
            LET num_audio_features == _get_num_audio_features(PyIntList(va.val[2]))
            IN  IF Raised(num_audio_features) THEN Outcome(num_audio_features, 1, 0, None)
                ELSE
                LET expanded == _expand_audio_placeholders(prompts, num_audio_features.val)
                IN  IF Raised(expanded) THEN Outcome(expanded, 1, 0, None)
                    ELSE TokenizeAndReturn(expanded.val, input_features.val, 1)

\* the branch "else" without its assertion
WithoutAudioNoAssert(prompts, expected_num_audios) == TokenizeAndReturn(prompts, None, 0)

\* the branch "else": no audio
WithoutAudio(prompts, expected_num_audios) ==
    IF expected_num_audios # 0 THEN Outcome(Raise("AssertionError"), 0, 0, None)
    ELSE TokenizeAndReturn(prompts, None, 0)

\* __call__(text, audios, device)
GraniteSpeechProcessor__call__(txt, a, device) ==
    IF txt = None THEN Outcome(Raise("AssertionError"), 0, 0, None)
    ELSE
    LET validated == _get_validated_text(txt)
    IN  IF Raised(validated) THEN Outcome(validated, 0, 0, None)
        ELSE
        LET expected_num_audios == ExpectedNumAudios(validated.val)
        IN  IF Raised(expected_num_audios) THEN Outcome(expected_num_audios, 0, 0, None)
            ELSE IF a # None
            THEN WithAudio(validated.val, a, expected_num_audios.val, device)
            ELSE WithoutAudio(validated.val, expected_num_audios.val)

----------------------------------------------------------------------------
(* GraniteMoeHybridConfig: the arguments the mamba head check reads, and          *)
(* num_key_value_heads.  The other arguments are stored as given, and             *)
(* PretrainedConfig.__init__ is taken to succeed (position_embedding_type is      *)
(* left at "nope", so no rope validation runs).                                   *)

Auto == PyStr(<<"a", "u", "t", "o">>)

\* mamba_d_head * mamba_n_heads != mamba_intermediate: a str times an int is a str,
\* which is never equal to an int
HeadsMismatch(mamba_d_head, mamba_n_heads, mamba_intermediate) ==
    IF IsStr(mamba_d_head) THEN TRUE
    ELSE mamba_d_head.i * mamba_n_heads # mamba_intermediate

\* the object __init__ leaves behind
ConfigObject(kw, num_key_value_heads, mamba_d_head) ==
    [t |-> "GraniteMoeHybridConfig",
     hidden_size |-> kw.hidden_size,
     num_attention_heads |-> kw.num_attention_heads,
     num_key_value_heads |-> num_key_value_heads,
     mamba_n_heads |-> kw.mamba_n_heads,
     mamba_d_head |-> mamba_d_head,
     mamba_expand |-> kw.mamba_expand]

\* __init__ without the check of mamba_d_head against mamba_intermediate
GraniteMoeHybridConfig__init__unchecked(kw) ==
    LET num_key_value_heads == IF kw.num_key_value_heads = None
                               THEN PyInt(kw.num_attention_heads)
                               ELSE kw.num_key_value_heads
        mamba_intermediate  == kw.mamba_expand * kw.hidden_size
    IN  IF kw.mamba_n_heads = 0 THEN Raise("ZeroDivisionError")
        ELSE IF mamba_intermediate % kw.mamba_n_heads # 0 THEN Raise("ValueError")
        ELSE
        LET mamba_d_head == IF kw.mamba_d_head = Auto
                            THEN PyInt(mamba_intermediate \div kw.mamba_n_heads)
                            ELSE kw.mamba_d_head
        IN  Ok(ConfigObject(kw, num_key_value_heads, mamba_d_head))

\* GraniteMoeHybridConfig.__init__(**kw)
GraniteMoeHybridConfig__init__(kw) ==
    LET num_key_value_heads == IF kw.num_key_value_heads = None
                               THEN PyInt(kw.num_attention_heads)
                               ELSE kw.num_key_value_heads
        mamba_intermediate  == kw.mamba_expand * kw.hidden_size
    IN  IF kw.mamba_n_heads = 0
        THEN Raise("ZeroDivisionError")               \* mamba_intermediate % mamba_n_heads
        ELSE IF mamba_intermediate % kw.mamba_n_heads # 0 THEN Raise("ValueError")
        ELSE
        LET mamba_d_head == IF kw.mamba_d_head = Auto
                            THEN PyInt(mamba_intermediate \div kw.mamba_n_heads)
                            ELSE kw.mamba_d_head
        IN  IF HeadsMismatch(mamba_d_head, kw.mamba_n_heads, mamba_intermediate)
            THEN Raise("ValueError")
            ELSE Ok(ConfigObject(kw, num_key_value_heads, mamba_d_head))

----------------------------------------------------------------------------
(* Inputs *)

MaxPieces == 2      \* pieces (placeholder tokens, words, markers) in one prompt
MaxPrompts == 2     \* entries in a text list
MaxClips == 2       \* clips in one audio argument
MaxFrames == 2      \* largest frame count handed to the expansion directly
MaxSamples == 12    \* short clips: every length up to this one

RECURSIVE SeqsUpTo(_, _)
SeqsUpTo(S, n) ==
    IF n = 0 THEN {<<>>}
    ELSE LET shorter == SeqsUpTo(S, n - 1)
         IN  shorter \cup {Append(q, x) : q \in {r \in shorter : Len(r) = n - 1}, x \in S}

Word == <<"H", "i">>
Foo == PyStr(<<"f", "o", "o">>)

\* prompts: up to MaxPieces pieces
PromptsOver(pieces) == {PyStr(Flatten(q)) : q \in SeqsUpTo(pieces, MaxPieces)}
Prompts == PromptsOver({audio_token, Word})

\* the text argument: missing, an integer, a prompt, or a list of prompts and integers
TextValues ==
    {None, PyInt(424)} \cup Prompts
    \cup {PyList(q) : q \in SeqsUpTo({PyStr(<<>>), PyStr(audio_token), PyInt(424)},
                                     MaxPrompts)}
    \cup {PyList(<<p>>) : p \in Prompts}

FixtureLengths == {142100, 269920}
ClipNames == <<"c1", "c2", "c3", "c4">>

\* lists of clips, each one-dimensional or of shape (1, n), named by position
ClipListsOf(lengths) ==
    {[k \in 1..Len(q) |-> IF q[k][1] = 1 THEN Clip1D(ClipNames[k], q[k][2])
                                          ELSE Clip2D(ClipNames[k], q[k][2])] :
        q \in SeqsUpTo({1, 2} \X lengths, MaxClips)}
ClipLists == ClipListsOf(FixtureLengths)

\* a (B, n) batch of B clips
Batch(B, n) == Tensor(<<B, n>>, [k \in 1..B |-> <<[src |-> ClipNames[k], n |-> n]>>])
Batches == {Batch(B, n) : B \in 1..MaxClips, n \in FixtureLengths \cup {100}}

\* the device argument: the host, the accelerator, or None (compute where x is)
DeviceArgs == {Cpu, Cuda, None}

\* tensors as the caller may hold them: in host memory or on the accelerator
Placed(tensors) == tensors \cup {To(x, Cuda) : x \in tensors}

\* the audios argument when one is given: the tests' values, and a batch that is on
\* the accelerator already
AudioValues ==
    {Foo, PyList(<<Foo>>)} \cup {PyList(q) : q \in ClipLists} \cup Batches
    \cup {To(Batch(1, 269920), Cuda)}

\* the x argument of a direct feature extractor call
ExtractInputs ==
    Placed(Batches) \cup {Batch(B, n) : B \in 1..MaxClips, n \in 1..MaxSamples}
    \cup {Clip1D("c1", n) : n \in FixtureLengths}

\* the x argument of a call made by one of the threads
ThreadInputs == Placed({Batch(1, 269920)})

\* lists of raw clip lengths
LengthLists == {PyIntList(q) : q \in SeqsUpTo(FixtureLengths, MaxClips)}

\* text lists of up to n prompts holding up to budget pieces in all
RECURSIVE TextListsOf(_, _, _)
TextListsOf(pieces, n, budget) ==
    IF n = 0 THEN {<<>>}
    ELSE LET shorter == TextListsOf(pieces, n - 1, budget)
         IN  shorter \cup
             UNION {{<<PyStr(Flatten(q))>> \o r :
                        r \in TextListsOf(pieces, n - 1, budget - Len(q))} :
                    q \in SeqsUpTo(pieces, budget)}

\* the arguments of a direct expansion call
ExpandTexts == TextListsOf({audio_token, Word, Marker}, MaxPrompts, MaxPieces)
ExpandFeatures == {PyIntList(q) : q \in SeqsUpTo(0..MaxFrames, MaxPieces)}

MaxHiddenSize == 4  \* small hidden_size and mamba_d_head values: every one up to this
MaxHeads == 3       \* small head counts: every one up to this
MaxExpand == 2      \* mamba_expand: every value up to this (2 is the default)

\* the arguments of GraniteMoeHybridConfig(...): small values and the defaults
\* (hidden_size 4096, 32 attention heads, 128 mamba heads, mamba_d_head "auto"), a zero
\* head count, and a mamba_d_head that is a string other than "auto"
ConfigKwargs ==
    [hidden_size         : 1..MaxHiddenSize \cup {4096},
     num_attention_heads : 1..MaxHeads \cup {32},
     num_key_value_heads : {None} \cup {PyInt(n) : n \in 1..MaxHeads \cup {8}},
     mamba_n_heads       : 0..MaxHeads \cup {128},
     mamba_d_head        : {Auto, Foo} \cup {PyInt(n) : n \in 1..MaxHiddenSize \cup {64}},
     mamba_expand        : 1..MaxExpand]

\* feature extractor parameters: the defaults, and three small settings (in the last
\* the downsample rate does not divide the window)
Configs ==
    { [kw |-> [sample_rate |-> 16000, n_fft |-> 512, win_length |-> 400,
               hop_length |-> 160, n_mels |-> 80], window |-> 15, rate |-> 5],
      [kw |-> [sample_rate |-> 16000, n_fft |-> 4, win_length |-> 4,
               hop_length |-> 2, n_mels |-> 2], window |-> 3, rate |-> 1],
      [kw |-> [sample_rate |-> 16000, n_fft |-> 8, win_length |-> 6,
               hop_length |-> 3, n_mels |-> 4], window |-> 4, rate |-> 2],
      [kw |-> [sample_rate |-> 16000, n_fft |-> 4, win_length |-> 2,
               hop_length |-> 1, n_mels |-> 2], window |-> 5, rate |-> 2] }

\* placeholder tokens: the default, and one whose text occurs inside the marker's
AudioTokens == {DefaultAudioToken, <<"e">>}

----------------------------------------------------------------------------
(* A feature extractor and a processor around it, and a caller that makes    *)
(* one call at a time (op = "idle" between calls) and drops the result       *)
(* before the next.                                                          *)

Config == <<melspec_kwargs, projector_window_size, projector_downsample_rate, audio_token>>

\* the threads that share one feature extractor, and a thread that is not in a call
Threads == {"t1", "t2"}
Waiting == [pc |-> "idle", x |-> None, device |-> None, melspec |-> None, ret |-> None]

Idle ==
    /\ op = "idle"
    /\ text = None
    /\ audios = None
    /\ feats = None
    /\ ret = None
    /\ fe_calls = 0
    /\ tok_calls = 0
    /\ tok_input = None
    /\ kwargs = None

\* the feature extractor holds the default parameters
DefaultConfig ==
    /\ melspec_kwargs = [sample_rate |-> 16000, n_fft |-> 512, win_length |-> 400,
                         hop_length |-> 160, n_mels |-> 80]
    /\ projector_window_size = 15
    /\ projector_downsample_rate = 5

\* GraniteSpeechFeatureExtractor.__init__ and GraniteSpeechProcessor.__init__
Init ==
    /\ \E c \in Configs :
          /\ melspec_kwargs = c.kw
          /\ projector_window_size = c.window
          /\ projector_downsample_rate = c.rate
    /\ melspec = None
    /\ transforms = <<>>
    /\ threads = [t \in Threads |-> Waiting]
    /\ audio_token \in AudioTokens
    /\ Idle

\* processor(text=txt)
CallWithText(txt) ==
    /\ op = "idle"
    /\ LET out == GraniteSpeechProcessor__call__(txt, None, Cpu) IN
        /\ op' = "processor"
        /\ text' = txt
        /\ audios' = None
        /\ ret' = out.ret
        /\ fe_calls' = out.fe_calls
        /\ tok_calls' = out.tok_calls
        /\ tok_input' = out.tok_input
        /\ UNCHANGED <<Config, melspec, transforms, threads, feats, kwargs>>

\* processor(text=txt, audios=a, device=device)
CallWithAudio(txt, a, device) ==
    /\ op = "idle"
    /\ LET out == GraniteSpeechProcessor__call__(txt, a, device) IN
        /\ op' = "processor"
        /\ text' = txt
        /\ audios' = a
        /\ ret' = out.ret
        /\ fe_calls' = out.fe_calls
        /\ tok_calls' = out.tok_calls
        /\ tok_input' = out.tok_input
        /\ melspec' = IF out.fe_calls > 0 THEN MelspecAfterCall(device).melspec
                       ELSE melspec
        /\ transforms' = IF out.fe_calls > 0 THEN MelspecAfterCall(device).transforms
                          ELSE transforms
        /\ UNCHANGED <<Config, threads, feats, kwargs>>

\* the caller drops the result
Release ==
    /\ op # "idle"
    /\ op' = "idle"
    /\ text' = None
    /\ audios' = None
    /\ feats' = None
    /\ ret' = None
    /\ fe_calls' = 0
    /\ tok_calls' = 0
    /\ tok_input' = None
    /\ kwargs' = None
    /\ UNCHANGED <<Config, melspec, transforms, threads>>

\* feature_extractor(x, device=device)
ExtractFeatures(x, device) ==
    /\ op = "idle"
    /\ op' = "extract"
    /\ audios' = x
    /\ melspec' = MelspecAfterCall(device).melspec
    /\ transforms' = MelspecAfterCall(device).transforms
    /\ ret' = GraniteSpeechFeatureExtractor__call__(x, device)
    /\ fe_calls' = 1
    /\ UNCHANGED <<Config, threads, text, feats, tok_calls, tok_input, kwargs>>

\* feature_extractor._get_num_audio_features(logmel), logmel the features just extracted
CountFeatures ==
    /\ op = "extract"
    /\ ~Raised(ret)
    /\ op' = "num_audio_features"
    /\ feats' = ret.val
    /\ ret' = _get_num_audio_features(ret.val)
    /\ fe_calls' = 0
    /\ UNCHANGED <<Config, melspec, transforms, threads, text, audios, tok_calls,
                   tok_input, kwargs>>

\* feature_extractor._get_num_audio_features(audio_lengths)
CountFeaturesOfLengths(audio_lengths) ==
    /\ op = "idle"
    /\ op' = "num_audio_features"
    /\ feats' = audio_lengths
    /\ ret' = _get_num_audio_features(audio_lengths)
    /\ UNCHANGED <<Config, melspec, transforms, threads, text, audios, fe_calls,
                   tok_calls, tok_input, kwargs>>

\* processor._expand_audio_placeholders(prompts, num_audio_features)
Expand(prompts, num_audio_features) ==
    /\ op = "idle"
    /\ op' = "expand"
    /\ text' = PyList(prompts)
    /\ feats' = num_audio_features
    /\ ret' = _expand_audio_placeholders(prompts, num_audio_features)
    /\ UNCHANGED <<Config, melspec, transforms, threads, audios, fe_calls, tok_calls,
                   tok_input, kwargs>>

\* processor._get_validated_audios(a)
ValidateAudios(a) ==
    /\ op = "idle"
    /\ op' = "validated_audios"
    /\ audios' = a
    /\ ret' = _get_validated_audios(a)
    /\ UNCHANGED <<Config, melspec, transforms, threads, text, feats, fe_calls,
                   tok_calls, tok_input, kwargs>>

\* GraniteMoeHybridConfig(**kw)
Construct(kw) ==
    /\ op = "idle"
    /\ op' = "config"
    /\ kwargs' = kw
    /\ ret' = GraniteMoeHybridConfig__init__(kw)
    /\ UNCHANGED <<Config, melspec, transforms, threads, text, audios, feats, fe_calls,
                   tok_calls, tok_input>>

\* the position of thread t in a call, and the thread taking a step
At(t, pc) == threads[t].pc = pc
Step(t, th) == threads' = [threads EXCEPT ![t] = th]

\* thread t calls feature_extractor(x, device=device), enters
\* _ensure_melspec_transform_is_initialized and tests self.melspec is None
EnterCall(t, x, device) ==
    /\ At(t, "idle")
    /\ Step(t, [pc |-> IF melspec = None THEN "construct" ELSE "to",
                x |-> x, device |-> device, melspec |-> None, ret |-> None])
    /\ UNCHANGED <<Config, melspec, transforms, op, text, audios, feats, ret, fe_calls,
                   tok_calls, tok_input, kwargs>>

\* thread t, having found self.melspec None, constructs a transform and assigns it
ConstructMelspec(t) ==
    /\ At(t, "construct")
    /\ melspec' = AssignNewMelspec(melspec)
    /\ transforms' = Constructed(transforms, melspec')
    /\ Step(t, [threads[t] EXCEPT !.pc = "to"])
    /\ UNCHANGED <<Config, op, text, audios, feats, ret, fe_calls, tok_calls, tok_input,
                   kwargs>>

\* thread t reads self.melspec into its local melspec and moves it and x to the device
MoveToDevice(t) ==
    /\ At(t, "to")
    /\ transforms' = MelspecTo(transforms, melspec, threads[t].device)
    /\ Step(t, [threads[t] EXCEPT !.pc = "compute", !.melspec = melspec,
                                  !.x = InputTo(@, threads[t].device)])
    /\ UNCHANGED <<Config, melspec, op, text, audios, feats, ret, fe_calls, tok_calls,
                   tok_input, kwargs>>

\* thread t computes the features with its local melspec, wherever that transform is by
\* now, and returns or raises
ComputeFeatures(t) ==
    /\ At(t, "compute")
    /\ Step(t, [threads[t] EXCEPT
                    !.pc = "done",
                    !.ret = LogMel(threads[t].x, transforms[threads[t].melspec.id])])
    /\ UNCHANGED <<Config, melspec, transforms, op, text, audios, feats, ret, fe_calls,
                   tok_calls, tok_input, kwargs>>

\* the caller in thread t drops the result
ReturnToCaller(t) ==
    /\ At(t, "done")
    /\ Step(t, Waiting)
    /\ UNCHANGED <<Config, melspec, transforms, op, text, audios, feats, ret, fe_calls,
                   tok_calls, tok_input, kwargs>>

\* the processor called as a whole
Next ==
    \/ op = "idle" /\ \E txt \in TextValues : CallWithText(txt)
    \/ op = "idle" /\ \E txt \in TextValues, a \in AudioValues, device \in DeviceArgs :
                          CallWithAudio(txt, a, device)
    \/ Release

Spec == Init /\ [][Next]_vars

\* the feature extractor called directly, constructed with any of the settings
InitFE == Init /\ audio_token = DefaultAudioToken

NextFE ==
    \/ op = "idle" /\ \E x \in ExtractInputs, device \in DeviceArgs :
                          ExtractFeatures(x, device)
    \/ CountFeatures
    \/ op = "idle" /\ \E lengths \in LengthLists : CountFeaturesOfLengths(lengths)
    \/ Release

SpecFE == InitFE /\ [][NextFE]_vars

\* the processor's helpers called directly, with any of the placeholder tokens
InitHelpers == Init /\ DefaultConfig

NextHelpers ==
    \/ op = "idle" /\ \E prompts \in ExpandTexts, n \in ExpandFeatures : Expand(prompts, n)
    \/ op = "idle" /\ \E a \in AudioValues \cup {PyList(q) : q \in ClipListsOf({100})} :
                          ValidateAudios(a)
    \/ Release

SpecHelpers == InitHelpers /\ [][NextHelpers]_vars

\* one feature extractor with the default parameters, called from two threads that are
\* not serialized: after any step of one, either may take the next
InitThreads == Init /\ DefaultConfig /\ audio_token = DefaultAudioToken

NextThreads ==
    \/ \E t \in Threads : At(t, "idle") /\ \E x \in ThreadInputs, device \in DeviceArgs :
                                              EnterCall(t, x, device)
    \/ \E t \in Threads : ConstructMelspec(t)
    \/ \E t \in Threads : MoveToDevice(t)
    \/ \E t \in Threads : ComputeFeatures(t)
    \/ \E t \in Threads : ReturnToCaller(t)

SpecThreads == InitThreads /\ [][NextThreads]_vars

\* configurations constructed one after the other
InitConfig == Init /\ DefaultConfig /\ audio_token = DefaultAudioToken

NextConfig ==
    \/ op = "idle" /\ \E kw \in ConfigKwargs : Construct(kw)
    \/ Release

SpecConfig == InitConfig /\ [][NextConfig]_vars

----------------------------------------------------------------------------
(* What the claims speak of *)

\* v is a prompt or a non-empty list of prompts
IsPrompts(v) ==
    \/ IsStr(v)
    \/ IsList(v) /\ v.l # <<>> /\ \A k \in 1..Len(v.l) : IsStr(v.l[k])

\* the prompts of such a text argument, as a list
PromptsOf(v) == IF IsStr(v) THEN <<v>> ELSE v.l

\* the placeholder occurrences in a list of prompts
Occurrences(prompts) == SumSeq([k \in 1..Len(prompts) |-> Count(prompts[k].s, audio_token)])

\* v is a list (possibly empty) of tensors
IsTensorList(v) == IsList(v) /\ \A k \in 1..Len(v.l) : IsTensor(v.l[k])

\* the clips an audio argument holds: the rows of a batch, the entries of a list
NumClips(v) == IF IsTensor(v) THEN v.shape[1] ELSE Len(v.l)

\* a list of tensors of one rank
OneRank(v) == \A k \in 1..Len(v.l) : Ndim(v.l[k]) = Ndim(v.l[1])

\* the true lengths of the clips of a batch or of a list of clips
ClipLengthsOf(v) ==
    IF IsTensor(v) THEN [k \in 1..v.shape[1] |-> LastDim(v)]
    ELSE [k \in 1..Len(v.l) |-> LastDim(v.l[k])]

\* the frame count of one clip of n samples: that of the features extracted from it alone
FrameCount(n) ==
    _get_num_audio_features(
        GraniteSpeechFeatureExtractor__call__(Batch(1, n), Cpu).val).val.i

\* a call with prompts and with audio the processor is built for: a (batch, samples)
\* tensor or a non-empty list of (1, samples) clips, long enough to be framed, one clip
\* for each placeholder occurrence
WellFormedAudioCall ==
    /\ op = "processor"
    /\ IsPrompts(text)
    /\ \/ IsTensor(audios)
       \/ /\ IsTensorList(audios)
          /\ audios.l # <<>>
          /\ \A k \in 1..Len(audios.l) : Ndim(audios.l[k]) = 2
    /\ \A k \in 1..NumClips(audios) : ClipLengthsOf(audios)[k] > melspec_kwargs.n_fft \div 2
    /\ NumClips(audios) = Occurrences(PromptsOf(text))

\* C1: a call with audio succeeds and hands the tokenizer a text whose number of
\* placeholder tokens is the sum of the frame counts of the clips (171 for one clip of
\* 269920 samples, 90 + 171 for clips of 142100 and 269920 samples).
C1_PlaceholdersMatchFrames ==
    WellFormedAudioCall =>
        /\ ~Raised(ret)
        /\ Occurrences(tok_input.l)
             = SumSeq([k \in 1..NumClips(audios) |-> FrameCount(ClipLengthsOf(audios)[k])])

\* C4 as claimed: audio supplied, clips and placeholder occurrences differ in number:
\* ValueError, before the feature extractor or the tokenizer is invoked.
C4_MismatchIsValueError ==
    (/\ op = "processor"
     /\ IsPrompts(text)
     /\ IsTensor(audios) \/ IsTensorList(audios)
     /\ NumClips(audios) # Occurrences(PromptsOf(text)))
    => (ret = Raise("ValueError") /\ fe_calls = 0 /\ tok_calls = 0)

\* C4 amended: with prompts for text and a tensor or a non-empty list of tensors of one
\* rank for audio, a differing number of clips and placeholder occurrences raises
\* ValueError before the feature extractor or the tokenizer is invoked; an empty list of
\* clips raises IndexError and a list mixing ranks RuntimeError, also before either.
C4_MismatchRaisesFirst ==
    (/\ op = "processor"
     /\ IsPrompts(text)
     /\ IsTensor(audios) \/ IsTensorList(audios)
     /\ NumClips(audios) # Occurrences(PromptsOf(text)))
    => /\ fe_calls = 0
       /\ tok_calls = 0
       /\ ret = IF IsTensor(audios) THEN Raise("ValueError")
                ELSE IF audios.l = <<>> THEN Raise("IndexError")
                ELSE IF ~OneRank(audios) THEN Raise("RuntimeError")
                ELSE Raise("ValueError")

\* two prompts with one placeholder each and a single clip: ValueError
C4_Witness ==
    /\ op = "processor"
    /\ text = PyList(<<PyStr(audio_token), PyStr(audio_token)>>)
    /\ IsTensorList(audios) /\ Len(audios.l) = 1
    /\ ret = Raise("ValueError")
    /\ fe_calls = 0 /\ tok_calls = 0

\* C5: a call with text=None fails with a TypeError.
C5_MissingTextIsTypeError ==
    (op = "processor" /\ text = None) => ret = Raise("TypeError")

\* C6: text that is neither a string nor a list, or a list whose first element is not
\* a string, raises TypeError, with or without audio, and neither the tokenizer nor the
\* feature extractor is invoked.
C6_BadTextIsTypeError ==
    (/\ op = "processor"
     /\ text # None
     /\ ~IsStr(text)
     /\ IsList(text) => (text.l # <<>> /\ ~IsStr(text.l[1])))
    => (ret = Raise("TypeError") /\ fe_calls = 0 /\ tok_calls = 0)

\* text=[424] with a batch of audio: TypeError
C6_Witness ==
    /\ op = "processor"
    /\ text = PyList(<<PyInt(424)>>)
    /\ IsTensor(audios)
    /\ ret = Raise("TypeError")

\* C7: audios that is neither a tensor nor a list of tensors raises TypeError, whatever
\* the text argument is.
C7_BadAudiosIsTypeError ==
    (/\ op = "processor"
     /\ audios # None
     /\ ~IsTensor(audios)
     /\ ~IsTensorList(audios))
    => ret = Raise("TypeError")

\* C8: without audio, a placeholder in some prompt makes the call fail before the
\* tokenizer is invoked; with no placeholder the call succeeds, the tokenizer receives
\* the prompts unchanged and the result bundle has no input_features.
C8_NoAudio ==
    (op = "processor" /\ audios = None /\ IsPrompts(text))
    => IF \E k \in 1..Len(PromptsOf(text)) : Contains(PromptsOf(text)[k].s, audio_token)
       THEN Raised(ret) /\ tok_calls = 0
       ELSE /\ ~Raised(ret)
            /\ tok_calls = 1
            /\ tok_input = PyList(PromptsOf(text))
            /\ "input_features" \notin ret.val.keys

\* a list whose second prompt holds a placeholder, no audio: the call fails
C8_Witness ==
    /\ op = "processor"
    /\ audios = None
    /\ text = PyList(<<PyStr(<<>>), PyStr(audio_token)>>)
    /\ ret = Raise("AssertionError")
    /\ tok_calls = 0

\* C2: _get_num_audio_features, given the list of the clips' raw lengths, returns the
\* list of their frame counts in the same order, each computed from the clip's own
\* length ([90, 171] for [142100, 269920] with the default parameters).
C2_PerClipFrameCounts ==
    (op = "num_audio_features" /\ IsList(feats))
    => ret = Ok(PyIntList([k \in 1..Len(feats.l) |-> FrameCount(feats.l[k].i)]))

\* C3 as claimed: the frame count computed by the closed form equals the number of
\* stacked time-steps the pipeline yields for the clip.
C3_FrameCountIsStackedSteps ==
    (op = "num_audio_features" /\ IsTensor(feats))
    => ret = Ok(PyInt(feats.shape[2]))

\* C3 amended: when the downsample rate divides the projector window, the frame count
\* computed from the features of an L-sample clip is the number of stacked time-steps,
\* floor((mel time steps of L) / 2), rounded up to a multiple of the window and divided
\* by the rate: 171 for the 844 steps of 269920 samples and 90 for the 444 steps of
\* 142100 samples with the default parameters.
C3_FrameCountCoversStackedSteps ==
    (/\ op = "num_audio_features"
     /\ IsTensor(feats)
     /\ projector_window_size % projector_downsample_rate = 0)
    => /\ ~Raised(ret)
       /\ LET steps  == feats.shape[2]
              covers == ret.val.i * projector_downsample_rate
          IN  /\ steps = MelFrames(LastDim(audios)) \div 2
              /\ covers >= steps
              /\ covers < steps + projector_window_size
              /\ covers % projector_window_size = 0
              /\ (DefaultConfig /\ LastDim(audios) = 269920) => ret.val.i = 171
              /\ (DefaultConfig /\ LastDim(audios) = 142100) => ret.val.i = 90

\* 269920 samples, default parameters: 844 stacked steps, 171 frames
C3_Witness ==
    /\ op = "num_audio_features"
    /\ DefaultConfig
    /\ IsTensor(audios) /\ audios.shape = <<1, 269920>>
    /\ IsTensor(feats) /\ feats.shape = <<1, 844, 160>>
    /\ ret = Ok(PyInt(171))

\* one left-to-right scan of a prompt: each placeholder occurrence becomes a run of as
\* many placeholder tokens as the next frame count says
RECURSIVE ScanSample(_, _)
ScanSample(sample, counts) ==
    LET i == Find(sample, audio_token)
    IN  IF i = 0 \/ counts = <<>> THEN [out |-> sample, rest |-> counts]
        ELSE LET r == ScanSample(SubSeq(sample, i + Len(audio_token), Len(sample)),
                                 Tail(counts))
             IN  [out  |-> SubSeq(sample, 1, i - 1) \o Repeat(audio_token, Head(counts).i)
                           \o r.out,
                  rest |-> r.rest]

\* the same over the prompts in list order, one cursor shared across the prompts
RECURSIVE ScanPrompts(_, _)
ScanPrompts(prompts, counts) ==
    IF prompts = <<>> THEN <<>>
    ELSE LET r == ScanSample(Head(prompts).s, counts)
         IN  <<PyStr(r.out)>> \o ScanPrompts(Tail(prompts), r.rest)

\* C9: for a placeholder token other than the marker, prompts with N placeholder
\* occurrences and N frame counts, the expansion replaces the k-th occurrence (prompts
\* in order, left to right, one shared cursor) by a run of f_k placeholder tokens and
\* returns one prompt per prompt, holding sum(f) placeholder tokens in all.
C9_ExpansionByOccurrence ==
    (/\ op = "expand"
     /\ audio_token # Marker
     /\ Len(feats.l) = Occurrences(text.l))
    => /\ ~Raised(ret)
       /\ ret.val = ScanPrompts(text.l, feats.l)
       /\ Occurrences(ret.val) = SumSeq([k \in 1..Len(feats.l) |-> feats.l[k].i])

\* the batch the claim describes for a list of clips: one row per clip, the clip's
\* samples first, zeros after them up to the longest clip
PaddedRows(clips) ==
    LET longest == MaxSeq([k \in 1..Len(clips) |-> LastDim(clips[k])])
    IN  Tensor(<<Len(clips), longest>>,
               [k \in 1..Len(clips) |->
                   IF LastDim(clips[k]) = longest THEN clips[k].data[1]
                   ELSE clips[k].data[1]
                        \o <<[src |-> "0", n |-> longest - LastDim(clips[k])]>>])

\* C10: a list of clips of differing lengths becomes one batch with a row per clip,
\* each clip zero-padded on the right to the longest, with the list of the true
\* lengths; a (batch, samples) tensor is returned unchanged with [samples] * batch.
C10_PaddedBatchAndLengths ==
    /\ (/\ op = "validated_audios"
        /\ IsTensorList(audios)
        /\ \E j, k \in 1..Len(audios.l) : LastDim(audios.l[j]) # LastDim(audios.l[k]))
       => ret = Ok(<<PaddedRows(audios.l), ClipLengthsOf(audios)>>)
    /\ (op = "validated_audios" /\ IsTensor(audios))
       => ret = Ok(<<audios, [k \in 1..audios.shape[1] |-> audios.shape[2]]>>)

\* what does hold of a list of clips that all have shape (1, samples), as the tests
\* pass them: the batch and the lengths are those C10 describes
PaddedBatchOfRowClips ==
    (/\ op = "validated_audios"
     /\ IsTensorList(audios)
     /\ audios.l # <<>>
     /\ \A k \in 1..Len(audios.l) : Ndim(audios.l[k]) = 2)
    => ret = Ok(<<PaddedRows(audios.l), ClipLengthsOf(audios)>>)

\* one step of a feature extractor called by one thread: a transform once built stays
\* the same object, a transform appears only in a step that is a call, a call leaves one
\* behind, and no second one is ever constructed
OneTransformStep ==
    /\ melspec # None => melspec' = melspec
    /\ (melspec = None /\ melspec' # None) => op' = "extract"
    /\ (op = "idle" /\ op' = "extract") => melspec' = [t |-> "MelSpectrogram", id |-> 1]
    /\ Len(transforms') <= 1
    /\ (melspec' = None) <=> (transforms' = <<>>)

\* C11: over any sequence of calls made one after the other on one feature extractor,
\* the transform is None from construction until the first call, is built by the first
\* call, and every later call reuses that same object: at most one is ever constructed.
C11_TransformBuiltOnce == melspec = None /\ [][OneTransformStep]_vars

\* a later call reuses the transform where an earlier call left it: a call with
\* device=None on a host tensor finds the one transform on the accelerator, to which only
\* an earlier call can have moved it, and fails in it
C11_Witness ==
    /\ op = "extract"
    /\ audios = Batch(1, 269920)
    /\ melspec = [t |-> "MelSpectrogram", id |-> 1]
    /\ transforms = <<Cuda>>
    /\ ret = Raise("RuntimeError")

InputFeaturesOnHost ==
    (op = "processor" /\ ~Raised(ret) /\ "input_features" \in ret.val.keys)
    => ret.val.input_features.device = Cpu

\* C13: with two threads calling one feature extractor, the test of self.melspec and
\* the assignment are separate steps: a thread that found the field None constructs a
\* transform of its own even when the other thread has assigned one in between, so
\* two transforms can be constructed for one instance.
C13_EveryObserverConstructs ==
    [][\A t \in Threads :
          (At(t, "construct") /\ threads'[t].pc # "construct")
          => Len(transforms') = Len(transforms) + 1]_vars

\* both threads found the field None and each has constructed a transform
C13_Witness ==
    /\ Len(transforms) = 2
    /\ melspec = [t |-> "MelSpectrogram", id |-> 2]
    /\ \A t \in Threads : At(t, "to")

\* what the race costs: at most one transform per instance does not hold of
\* unserialized threads (it does of calls made one after the other, C11)
AtMostOneTransform == Len(transforms) <= 1

\* a text list the validation is to reject: empty, or holding an element that is not a
\* string, in whatever position
BadTextList == IsList(text) /\ (text.l = <<>> \/ \E k \in 1..Len(text.l) : ~IsStr(text.l[k]))

\* C14: an empty text list, and a text list containing a non-string element in any
\* position, make the processor call fail with a TypeError.
C14_BadTextListIsTypeError ==
    (op = "processor" /\ BadTextList) => ret = Raise("TypeError")

\* what does hold of such lists: the call fails before the feature extractor or the
\* tokenizer is invoked, with IndexError for the empty list (text[0]), TypeError when the
\* first element is not a string, and AttributeError when a later element is an int
\* (t.count)
BadTextListRaises ==
    (op = "processor" /\ BadTextList)
    => /\ fe_calls = 0
       /\ tok_calls = 0
       /\ ret = IF text.l = <<>> THEN Raise("IndexError")
                ELSE IF ~IsStr(text.l[1]) THEN Raise("TypeError")
                ELSE Raise("AttributeError")

\* n divides m (no number is a multiple of a zero head count here: m is positive)
Divides(n, m) == n # 0 /\ m % n = 0

\* a configuration was constructed: it holds the arguments as given, its mamba head
\* dimensions multiply to mamba_expand * hidden_size ("auto" resolved to the quotient),
\* and num_key_value_heads defaults to num_attention_heads
ConstructedConsistent ==
    LET c == ret.val
    IN  /\ c.hidden_size = kwargs.hidden_size
        /\ c.mamba_expand = kwargs.mamba_expand
        /\ c.mamba_n_heads = kwargs.mamba_n_heads
        /\ c.num_attention_heads = kwargs.num_attention_heads
        /\ c.mamba_d_head.i * c.mamba_n_heads = c.mamba_expand * c.hidden_size
        /\ kwargs.mamba_d_head = Auto
             => c.mamba_d_head.i = (c.mamba_expand * c.hidden_size) \div c.mamba_n_heads
        /\ kwargs.mamba_d_head # Auto => c.mamba_d_head = kwargs.mamba_d_head
        /\ c.num_key_value_heads = IF kwargs.num_key_value_heads = None
                                   THEN PyInt(c.num_attention_heads)
                                   ELSE kwargs.num_key_value_heads

\* an explicit mamba_d_head that breaks the equality
ExplicitHeadBreaks ==
    /\ kwargs.mamba_d_head # Auto
    /\ HeadsMismatch(kwargs.mamba_d_head, kwargs.mamba_n_heads,
                     kwargs.mamba_expand * kwargs.hidden_size)

\* C15 as claimed: every constructed configuration is consistent, and construction
\* raises ValueError when mamba_n_heads does not divide mamba_expand * hidden_size or
\* an explicit mamba_d_head breaks the equality.
C15_MambaHeadsValueError ==
    op = "config" =>
        /\ ~Raised(ret) => ConstructedConsistent
        /\ (\/ ~Divides(kwargs.mamba_n_heads, kwargs.mamba_expand * kwargs.hidden_size)
            \/ ExplicitHeadBreaks) => ret = Raise("ValueError")

\* C15 amended: every constructed configuration is consistent; construction raises
\* ZeroDivisionError when mamba_n_heads is 0, ValueError when a nonzero mamba_n_heads
\* does not divide mamba_expand * hidden_size or an explicit mamba_d_head breaks the
\* equality, and succeeds otherwise.
C15_MambaHeadsChecked ==
    op = "config" =>
        LET n  == kwargs.mamba_n_heads
            mi == kwargs.mamba_expand * kwargs.hidden_size
        IN  IF n = 0 THEN ret = Raise("ZeroDivisionError")
            ELSE IF ~Divides(n, mi) \/ ExplicitHeadBreaks THEN ret = Raise("ValueError")
            ELSE ~Raised(ret) /\ ConstructedConsistent

\* the defaults: 2 * 4096 over 128 heads resolves "auto" to 64, and 32 key-value heads
C15_Witness ==
    /\ op = "config"
    /\ kwargs.hidden_size = 4096 /\ kwargs.mamba_expand = 2 /\ kwargs.mamba_n_heads = 128
    /\ kwargs.mamba_d_head = Auto
    /\ kwargs.num_attention_heads = 32 /\ kwargs.num_key_value_heads = None
    /\ ~Raised(ret)
    /\ ret.val.mamba_d_head = PyInt(64)
    /\ ret.val.num_key_value_heads = PyInt(32)

\* a prompt with its placeholder tokens taken out: the text outside them, in order
Outside(sample) == ReplaceAll(sample, audio_token, <<>>)

\* an expansion that changed only the placeholder occurrences: a prompt for each prompt,
\* the text outside the occurrences as it was, and as many placeholder tokens as the
\* frame counts consumed by the original occurrences say
OnlyOccurrencesChanged ==
    /\ Len(ret.val) = Len(text.l)
    /\ \A k \in 1..Len(text.l) : Outside(ret.val[k].s) = Outside(text.l[k].s)
    /\ Occurrences(ret.val)
         = SumSeq([k \in 1..Occurrences(text.l) |-> feats.l[k].i])

\* C16: for every prompt, prompts holding the literal text "<placeholder>" included,
\* the expansion leaves all text outside the original placeholder occurrences unchanged
\* and in order, and puts no placeholder token where no original occurrence was.
C16_OnlyOccurrencesChange ==
    (op = "expand" /\ ~Raised(ret)) => OnlyOccurrencesChanged

\* what does hold: with the default placeholder token and prompts that do not hold the
\* literal text "<placeholder>", the expansion changes only the occurrences
OnlyOccurrencesChangeWithoutMarker ==
    (/\ op = "expand"
     /\ ~Raised(ret)
     /\ audio_token = DefaultAudioToken
     /\ \A k \in 1..Len(text.l) : ~Contains(text.l[k].s, Marker))
    => OnlyOccurrencesChanged

====
